---- MODULE Spec2Model ----
(***************************************************************************)
(* Model of the enrichment pipeline of src/main.py: the label normalizer   *)
(* (clean_common_name), the completion client with rate-limit retry        *)
(* (get_common_name), the item enricher (process_species), the batch       *)
(* scheduler with per-batch persistence (process_and_save_batch) and the   *)
(* run configuration (main_async).                                         *)
(*                                                                         *)
(* Text is modelled as a sequence of characters; a character is a          *)
(* one-element atom.  Characters outside ASCII are named by their code     *)
(* point ("U+547C" is the first character of the Japanese prefix).         *)
(***************************************************************************)
EXTENDS Integers, Sequences, FiniteSets, TLC

\* ------------------------------------------------------------------ bounds
\* Number of identifiers in the loaded species list.
NumSpecies == 3
\* Largest --batch-size explored.
MaxBatchSize == 2
\* Attempt budget of one fetch (the parameter's default is 10; scaled down).
MaxRetries == 2
\* Raw labels are concatenations of at most this many pieces.
MaxPieces == 3

\* --------------------------------------------------------- program constants
\* wait_time = 10 * (attempt + 1)
BackoffUnit == 10
\* await asyncio.sleep(2) between batches
InterBatchDelay == 2

\* ------------------------------------------------------------------- text
RECURSIVE Concat(_)
Concat(ss) == IF ss = <<>> THEN <<>> ELSE Head(ss) \o Concat(Tail(ss))

\* str.isspace() / regex \s, restricted to the characters of the model
Whitespace == {" ", "\n"}

\* str.lower() on the letters the prefixes use (re.IGNORECASE)
Lower(c) ==
    CASE c = "C" -> "c"
      [] c = "N" -> "n"
      [] c = "O" -> "o"
      [] c = "M" -> "m"
      [] c = "A" -> "a"
      [] c = "E" -> "e"
      [] OTHER -> c

RECURSIVE LStripSet(_, _)
LStripSet(s, chars) ==
    IF s = <<>> \/ Head(s) \notin chars THEN s ELSE LStripSet(Tail(s), chars)

RECURSIVE RStripSet(_, _)
RStripSet(s, chars) ==
    IF s = <<>> \/ s[Len(s)] \notin chars THEN s
    ELSE RStripSet(SubSeq(s, 1, Len(s) - 1), chars)

\* str.strip(chars)
StripChars(s, chars) == RStripSet(LStripSet(s, chars), chars)

\* str.strip()
strip(s) == StripChars(s, Whitespace)

\* s starts with the literal p (compared through Lower when ignorecase)
StartsWith(s, p, ignorecase) ==
    /\ Len(s) >= Len(p)
    /\ \A k \in 1..Len(p) :
          IF ignorecase THEN Lower(s[k]) = Lower(p[k]) ELSE s[k] = p[k]

\* re.sub('^' + p + '\s*', '', s): the anchored literal and the whitespace
\* run after it are removed, once
SubPrefix(s, p, ignorecase) ==
    IF StartsWith(s, p, ignorecase)
    THEN LStripSet(SubSeq(s, Len(p) + 1, Len(s)), Whitespace)
    ELSE s

\* re.sub(r'^AB[:<fullwidth colon>]\s*', '', s): a character class ends the literal
SubPrefixClass(s, p, class) ==
    IF StartsWith(s, p, FALSE) /\ Len(s) > Len(p) /\ s[Len(p) + 1] \in class
    THEN LStripSet(SubSeq(s, Len(p) + 2, Len(s)), Whitespace)
    ELSE s

RECURSIVE FirstLine(_)
\* s.split('\n')[0]
FirstLine(s) ==
    IF s = <<>> \/ Head(s) = "\n" THEN <<>> ELSE <<Head(s)>> \o FirstLine(Tail(s))

HasNewline(s) == \E k \in 1..Len(s) : s[k] = "\n"

\* if '\n' in common_name: common_name = common_name.split('\n')[0].strip()
CutAtNewline(s) == IF HasNewline(s) THEN strip(FirstLine(s)) ELSE s

PrefixCommonName == <<"C", "o", "m", "m", "o", "n", " ", "N", "a", "m", "e", ":">>
PrefixName == <<"N", "a", "m", "e", ":">>
\* U+547C U+79F0 and U+65E5 U+672C U+8A9E U+540D
PrefixKosho == <<"U+547C", "U+79F0">>
PrefixNihongomei == <<"U+65E5", "U+672C", "U+8A9E", "U+540D">>
\* [:<U+FF1A>]
ColonClass == {":", "U+FF1A"}
\* strip('"\'')
QuotesEn == {"\"", "'"}
\* strip of the corner brackets U+300C U+300D U+300E U+300F and the ASCII quotes
QuotesJa == {"U+300C", "U+300D", "U+300E", "U+300F", "\"", "'"}

CleanEn(s0) ==
    LET s1 == strip(s0)
        s2 == SubPrefix(s1, PrefixCommonName, TRUE)
        s3 == SubPrefix(s2, PrefixName, TRUE)
        s4 == CutAtNewline(s3)
        s5 == StripChars(s4, QuotesEn)
    IN  strip(s5)

CleanJa(s0) ==
    LET s1 == strip(s0)
        s2 == SubPrefixClass(s1, PrefixKosho, ColonClass)
        s3 == SubPrefixClass(s2, PrefixNihongomei, ColonClass)
        s4 == CutAtNewline(s3)
        s5 == StripChars(s4, QuotesJa)
    IN  strip(s5)

clean_common_name(common_name, language) ==
    IF language = "ja" THEN CleanJa(common_name) ELSE CleanEn(common_name)


\* ------------------------------------------------------------- collaborators
Langs == {"en", "ja"}

\* load_species_list: the identifiers, one per non-blank line
species_list == [k \in 1..NumSpecies |-> <<"species", k>>]

\* the sentinel failure label, U+30A8 U+30E9 U+30FC
SENTINEL == <<"U+30A8", "U+30E9", "U+30FC">>

\* csv.DictWriter(f, fieldnames=[...])
fieldnames == <<"number", "scientific_name", "english_common_name", "japanese_common_name">>
HeaderLine == [kind |-> "header", cells |-> fieldnames]

\* list[i] with Python's index rules (0-based, negative from the end)
PyIndexOK(list, idx) == -Len(list) <= idx /\ idx < Len(list)
PyIndex(list, idx) == IF idx >= 0 THEN list[idx + 1] ELSE list[Len(list) + idx + 1]

\* range(a, b)
PyRange(a, b) == [k \in 1..(IF b > a THEN b - a ELSE 0) |-> a + k - 1]

\* list[a:b] for 0 <= a and 0 <= b
PySlice(list, a, b) ==
    LET hi == IF b < Len(list) THEN b ELSE Len(list)
    IN  IF a >= hi THEN <<>> ELSE SubSeq(list, a + 1, hi)

\* Raw labels the completion service may put in the structured field.
RawResponses(language) ==
    IF language = "ja"
    THEN {<<"U+300C", "U+30CD", "U+300D">>,
          <<"U+547C", "U+79F0", "U+FF1A", "U+300C", "U+30CD", "U+300D">>}
    ELSE {<<"\"", "L", "\"">>, <<"N", "a", "m", "e", ":", " ", "\"", "L", "\"">>}

\* str(e) of a failed request, as a sequence of words
ErrorMessages ==
    { <<"Error", "code:", "429">>,
      <<"Rate_Limit", "exceeded">>,
      <<"Connection", "error.">> }

LowerWord(w) == IF w = "Rate_Limit" THEN "rate_limit" ELSE w

\* "429" in error_message or "rate_limit" in error_message.lower()
IsRateLimit(error_message) ==
    \E k \in 1..Len(error_message) :
        error_message[k] = "429" \/ LowerWord(error_message[k]) = "rate_limit"

\* What one request to the completion service may come back with.
Outcomes(language) ==
    {[kind |-> "parsed", raw |-> r, msg |-> <<>>] : r \in RawResponses(language)}
    \cup {[kind |-> "noparse", raw |-> <<>>, msg |-> <<>>]}
    \cup {[kind |-> "error", raw |-> <<>>, msg |-> m] : m \in ErrorMessages}

\* One outcome of each kind get_common_name tells apart: what the pipeline's
\* requests come back with.
PipelineOutcomes(language) ==
    {o \in Outcomes(language) :
        /\ Len(o.raw) <= 3
        /\ o.msg \in {<<>>, <<"Error", "code:", "429">>, <<"Connection", "error.">>}}

\* common_name = clean_common_name(common_name, language), tabulated over the
\* labels a request can hand to it: those of the service, and the sentinel
\* of an unparsed answer.
CleanedLabel ==
    [language \in Langs |->
        [common_name \in RawResponses(language) \cup {SENTINEL} |->
            clean_common_name(common_name, language)]]

\* (mutant) every error is taken for a rate limit
OutcomeClassAllRate(o) == IF o.kind = "error" THEN "rate" ELSE o.kind

\* The class of an outcome as get_common_name tells them apart.
OutcomeClass(o) ==
    IF o.kind = "error"
    THEN (IF IsRateLimit(o.msg) THEN "rate" ELSE "other")
    ELSE o.kind

\* A service that answers the same request the same way every time.
DetOutcome(species, language) ==
    LET r == species[2] % 3 IN
    CASE r = 1 -> [kind |-> "parsed", raw |-> IF language = "ja"
                       THEN <<"U+300C", "U+30CD", "U+300D">>
                       ELSE <<"\"", "L", "\"">>, msg |-> <<>>]
      [] r = 2 -> IF language = "ja"
                  THEN [kind |-> "error", raw |-> <<>>, msg |-> <<"Error", "code:", "429">>]
                  ELSE [kind |-> "parsed", raw |-> <<"\"", "L", "\"">>, msg |-> <<>>]
      [] OTHER -> IF language = "ja"
                  THEN [kind |-> "error", raw |-> <<>>, msg |-> <<"Connection", "error.">>]
                  ELSE [kind |-> "noparse", raw |-> <<>>, msg |-> <<>>]

\* ------------------------------------------------------------------- state
VARIABLES
    args,           \* parsed command line: [start, has_line, line, batch_size]
    service,        \* "any": the service may answer anything; "det": DetOutcome
    runs,           \* invocations started so far
    alive,          \* FALSE once the process was killed or interrupted (pc: where)
    pc,             \* where the coordinating flow of the invocation stands
    start_line,     \* main_async / process_and_save_batch locals
    end_line,
    file_mode,
    tasks,          \* the (line_number, coroutine) list, not yet started
    i,              \* loop variable of the batch loop
    batch,          \* the item tasks gathered for the current batch
    batch_results,  \* results of the current batch, once gathered
    wrote,          \* rows of batch_results handed to the writer so far
    file,           \* output file: [exists, disk, buf]
    file0,          \* the output file as the invocation found it
    pauses,         \* inter-batch sleeps performed by the invocation
    raw, lang, once, twice, stage,  \* one label put through clean_common_name twice
    call,           \* one get_common_name call on its own: [species, language, max_retries]
    frame,          \* its frame
    nreq,           \* requests it has issued
    resp,           \* outcomes of its requests, in order
    sleeps          \* its backoff sleeps, in order

pipeVars == <<args, service, runs, alive, pc, start_line, end_line, file_mode, tasks, i,
              batch, batch_results, wrote, file, file0, pauses>>
cleanVars == <<raw, lang, once, twice, stage>>
callVars == <<call, frame, nreq, resp, sleeps>>
harnessVars == <<raw, lang, once, twice, stage, call, frame, nreq, resp, sleeps>>
vars == <<args, service, runs, alive, pc, start_line, end_line, file_mode, tasks, i,
          batch, batch_results, wrote, file, file0, pauses,
          raw, lang, once, twice, stage, call, frame, nreq, resp, sleeps>>

max_retries == MaxRetries


\* ------------------------------------------------------------ configuration
\* Values of --start explored: the first ordinal, the last two, and the one
\* past the list.
StartValues == {1} \cup ((NumSpecies - 1)..(NumSpecies + 1))
\* Values of --line explored: the ordinals, and one to each side.
LineValues == 0..(NumSpecies + 1)
\* Values of --batch-size explored: argparse takes any integer (line 204), so
\* a negative size and zero stand beside the sizes that form batches.
BatchSizes == (0 - 1)..MaxBatchSize

\* args after parse_args(): --start defaults to 1, --line to None
ArgSets ==
    {[start |-> s, has_line |-> FALSE, line |-> 0, batch_size |-> b] :
        s \in StartValues, b \in BatchSizes}
    \cup
    {[start |-> 1, has_line |-> TRUE, line |-> l, batch_size |-> b] :
        l \in LineValues, b \in BatchSizes}

NoFile == [exists |-> FALSE, disk |-> <<>>, buf |-> <<>>]

\* row dict built by process_species
ResultRow(line_number, species, en_common_name, ja_common_name) ==
    [kind |-> "row",
     number |-> line_number,
     scientific_name |-> species,
     english_common_name |-> en_common_name,
     japanese_common_name |-> ja_common_name]

\* ------------------------------------------------------------ get_common_name
\* Frame of one get_common_name call: st is "req" while the request is awaited,
\* "sleep" during the backoff sleep, "done" once it has returned `result`;
\* attempt is the loop variable, wait_time the last computed backoff.
NoFetch == [st |-> "none", attempt |-> 0, wait_time |-> 0, result |-> <<>>]

\* return common_name: the frame is left, only the returned label remains
Returned(label) == [NoFetch EXCEPT !.st = "done", !.result = label]

\* for attempt in range(retries): the first request is issued at once; with an
\* empty range the function falls through to the final return (line 136)
NewFetch(retries) ==
    IF retries > 0 THEN [NoFetch EXCEPT !.st = "req"] ELSE Returned(SENTINEL)

\* (mutant) the backoff does not grow with the attempt
WaitTimeConstant(attempt) == BackoffUnit

\* wait_time = 10 * (attempt + 1)
WaitTime(attempt) == BackoffUnit * (attempt + 1)

\* The awaited request of frame f comes back with outcome o (lines 98-134).
OnResponse(f, o, language) ==
    LET cls == OutcomeClass(o) IN
    CASE cls = "parsed" -> Returned(CleanedLabel[language][o.raw])
      [] cls = "noparse" -> Returned(CleanedLabel[language][SENTINEL])
      [] cls = "rate" -> [f EXCEPT !.st = "sleep", !.wait_time = WaitTime(f.attempt)]
      [] OTHER -> Returned(SENTINEL)

\* (mutant) the give-up test is one attempt late
OnWakeOneMore(f, retries) ==
    IF f.attempt = retries
    THEN Returned(SENTINEL)
    ELSE [f EXCEPT !.st = "req", !.attempt = @ + 1]

\* The backoff sleep of frame f ends (lines 128-131, then the next iteration).
OnWake(f, retries) ==
    IF f.attempt = retries - 1
    THEN Returned(SENTINEL)
    ELSE [f EXCEPT !.st = "req", !.attempt = @ + 1]

\* ------------------------------------------------------------ process_species
\* An item task: running until both fetches returned, then done with its row.
NoRow == ResultRow(0, <<"species", 0>>, <<>>, <<>>)

NewTask(t) ==
    [number |-> t.number, species |-> t.species, st |-> "running",
     en |-> NewFetch(max_retries), ja |-> NewFetch(max_retries), result |-> NoRow]

\* (mutant) the two labels land in each other's column
FinishTaskSwapped(t) ==
    [t EXCEPT !.st = "done", !.en = NoFetch, !.ja = NoFetch,
              !.result = ResultRow(t.number, t.species, t.ja.result, t.en.result)]

\* asyncio.gather of the two fetches has both results: the dict is returned
FinishTask(t) ==
    [t EXCEPT !.st = "done", !.en = NoFetch, !.ja = NoFetch,
              !.result = ResultRow(t.number, t.species, t.en.result, t.ja.result)]

\* ----------------------------------------------------- process_and_save_batch
RECURSIVE InsertByNumber(_, _)
InsertByNumber(sorted, row) ==
    IF sorted = <<>> THEN <<row>>
    ELSE IF sorted[Len(sorted)].number <= row.number THEN Append(sorted, row)
    ELSE Append(InsertByNumber(SubSeq(sorted, 1, Len(sorted) - 1), row),
                sorted[Len(sorted)])

RECURSIVE SortFrom(_, _)
SortFrom(rows, acc) ==
    IF rows = <<>> THEN acc ELSE SortFrom(Tail(rows), InsertByNumber(acc, Head(rows)))

\* batch_results.sort(key=lambda x: x['number']): stable, ascending
SortByNumber(rows) == SortFrom(rows, <<>>)

\* (mutant) the slice takes one coroutine too many
BatchSliceOneMore(ts, idx, batch_size) == PySlice(ts, idx, idx + batch_size + 1)

\* tasks[i:i + batch_size]
BatchSlice(ts, idx, batch_size) == PySlice(ts, idx, idx + batch_size)

\* (mutant) the pause is also taken when the batch just saved was the last
MoreBatchesOrLast(idx, batch_size, ntasks) == idx + batch_size <= ntasks

\* if i + batch_size < len(tasks)
MoreBatches(idx, batch_size, ntasks) == idx + batch_size < ntasks


\* ----------------------------------------------------------------- actions
CleanIdle == raw = <<>> /\ lang = "en" /\ once = <<>> /\ twice = <<>> /\ stage = "off"

CallIdle ==
    /\ call = [species |-> species_list[1], language |-> "en", max_retries |-> 0]
    /\ frame = NoFetch
    /\ nreq = 0
    /\ resp = <<>>
    /\ sleeps = <<>>

LocalsInit ==
    /\ start_line = 0
    /\ end_line = 0
    /\ file_mode = "-"
    /\ tasks = <<>>
    /\ i = 0
    /\ batch = <<>>
    /\ batch_results = <<>>
    /\ wrote = 0
    /\ pauses = 0

\* One invocation of the program, in a directory with no output file yet.
Init ==
    /\ args \in ArgSets
    /\ service = "any"
    /\ runs = 1
    /\ alive = TRUE
    /\ pc = "main"
    /\ file = NoFile
    /\ file0 = file
    /\ LocalsInit
    /\ CleanIdle
    /\ CallIdle

\* (mutant) every run starts a new file
ChooseFileModeAlwaysNew(a, exists) == "w"

\* file_mode as main_async chooses it (lines 227-237)
ChooseFileMode(a, exists) ==
    IF a.has_line THEN "a"
    ELSE IF a.start > 1 /\ exists THEN "a" ELSE "w"

\* main_async, lines 207-240: the run range and the file mode
MainAsync ==
    /\ alive
    /\ pc = "main"
    /\ start_line' = IF args.has_line THEN args.line ELSE args.start
    /\ end_line' = IF args.has_line THEN args.line ELSE Len(species_list)
    /\ file_mode' = ChooseFileMode(args, file.exists)
    /\ pc' = "tasks"
    /\ UNCHANGED <<args, service, runs, alive, tasks, i, batch, batch_results, wrote,
                   file, file0, pauses>>
    /\ UNCHANGED harnessVars

\* lines 164-168: one coroutine per line of the range; an index outside the
\* list raises IndexError before the file is opened
BuildTasks ==
    /\ alive
    /\ pc = "tasks"
    /\ LET idxs == PyRange(start_line - 1, end_line) IN
       IF \A k \in 1..Len(idxs) : PyIndexOK(species_list, idxs[k])
       THEN /\ tasks' = [k \in 1..Len(idxs) |->
                           [number |-> idxs[k] + 1,
                            species |-> PyIndex(species_list, idxs[k])]]
            /\ pc' = "open"
       ELSE /\ tasks' = <<>>
            /\ pc' = "failed"
    /\ UNCHANGED <<args, service, runs, alive, start_line, end_line, file_mode, i, batch,
                   batch_results, wrote, file, file0, pauses>>
    /\ UNCHANGED harnessVars

\* (mutant) the open truncates whatever the mode
OpenedFileTruncated(f, mode) == [exists |-> TRUE, disk |-> <<>>, buf |-> <<>>]

\* open(output_path, file_mode): 'w' truncates, 'a' keeps what is there
OpenedFile(f, mode) ==
    [exists |-> TRUE, disk |-> IF mode = "w" THEN <<>> ELSE f.disk, buf |-> <<>>]

\* line 171, the open succeeds
OpenFile ==
    /\ alive
    /\ pc = "open"
    /\ file' = OpenedFile(file, file_mode)
    /\ pc' = "header"
    /\ UNCHANGED <<args, service, runs, alive, start_line, end_line, file_mode, tasks, i,
                   batch, batch_results, wrote, file0, pauses>>
    /\ UNCHANGED harnessVars

\* (mutant) the file is opened lazily: the failure comes once the loop is entered
OpenFailLate ==
    /\ alive
    /\ pc = "loop"
    /\ pc' = "failed"
    /\ tasks' = <<>>
    /\ UNCHANGED <<args, service, runs, alive, start_line, end_line, file_mode, i,
                   batch, batch_results, wrote, file, file0, pauses>>
    /\ UNCHANGED harnessVars

\* line 171, the open raises: the exception ends the run
OpenFail ==
    /\ alive
    /\ pc = "open"
    /\ pc' = "failed"
    /\ tasks' = <<>>
    /\ UNCHANGED <<args, service, runs, alive, start_line, end_line, file_mode, i,
                   batch, batch_results, wrote, file, file0, pauses>>
    /\ UNCHANGED harnessVars

\* writer.writerow(row) / writer.writeheader() with room left in the file
\* object's buffer: the line is kept there
RowBuffered(f, row) == [f EXCEPT !.buf = Append(@, row)]

\* writer.writerow(row) with the buffer of open() (line 171) too full to take
\* the line: the lines buffered before reach the file, the new one is kept
RowSpilled(f, row) == [f EXCEPT !.disk = f.disk \o f.buf, !.buf = <<row>>]

\* writer.writerow(row) with a line larger than the buffer: the lines
\* buffered before and the line itself reach the file
RowThrough(f, row) == [f EXCEPT !.disk = f.disk \o Append(f.buf, row), !.buf = <<>>]

\* writer.writerow(row), line 189: which of the three happens depends on the
\* byte length of the lines, which the model leaves open
RowWritten(f, row) == {RowBuffered(f, row), RowSpilled(f, row), RowThrough(f, row)}

\* f.flush(): what the writer buffered reaches the file
Flushed(f) == [f EXCEPT !.disk = f.disk \o f.buf, !.buf = <<>>]

\* (mutant) the header is written whatever the mode
HeaderWrittenAlways(f, mode) == Flushed(RowBuffered(f, HeaderLine))

\* lines 175-177: the header, written and flushed only for a new file
HeaderWritten(f, mode) ==
    IF mode = "w" THEN Flushed(RowBuffered(f, HeaderLine)) ELSE f

WriteHeader ==
    /\ alive
    /\ pc = "header"
    /\ file' = HeaderWritten(file, file_mode)
    /\ i' = 0
    /\ pc' = "loop"
    /\ UNCHANGED <<args, service, runs, alive, start_line, end_line, file_mode, tasks,
                   batch, batch_results, wrote, file0, pauses>>
    /\ UNCHANGED harnessVars

\* range(0, len(tasks), batch_size) of line 180 holds idx: below the stop
\* for a positive step, above it for a negative one; a step of zero raises
InLoopRange(idx, ntasks, batch_size) ==
    IF batch_size > 0 THEN idx < ntasks ELSE batch_size < 0 /\ idx > ntasks

\* line 180 with a batch size of zero: range() raises ValueError inside the
\* with block, whose exit closes the file; the exception ends the run
RangeFail ==
    /\ alive
    /\ pc = "loop"
    /\ args.batch_size = 0
    /\ file' = Flushed(file)
    /\ tasks' = <<>>
    /\ pc' = "raised"
    /\ UNCHANGED <<args, service, runs, alive, start_line, end_line, file_mode, i,
                   batch, batch_results, wrote, file0, pauses>>
    /\ UNCHANGED harnessVars

\* lines 180-183: the next slice of coroutines is handed to asyncio.gather,
\* which starts them; each item starts its two fetches (lines 144-147)
StartBatch ==
    /\ alive
    /\ pc = "loop"
    /\ InLoopRange(i, Len(tasks), args.batch_size)
    /\ LET slice == BatchSlice(tasks, i, args.batch_size) IN
       batch' = [k \in 1..Len(slice) |-> NewTask(slice[k])]
    /\ pc' = "gather"
    /\ UNCHANGED <<args, service, runs, alive, start_line, end_line, file_mode, tasks, i,
                   batch_results, wrote, file, file0, pauses>>
    /\ UNCHANGED harnessVars

\* The outcomes the service may give the request for (species, language).
Answers(species, language) ==
    IF service = "det" THEN {DetOutcome(species, language)}
    ELSE PipelineOutcomes(language)

\* line 99 returns or raises for the fetch of item k in language l
Respond(k, l) ==
    /\ alive
    /\ pc = "gather"
    /\ batch[k].st = "running"
    /\ batch[k][l].st = "req"
    /\ \E o \in Answers(batch[k].species, l) :
          batch' = [batch EXCEPT ![k][l] = OnResponse(@, o, l)]
    /\ UNCHANGED <<args, service, runs, alive, pc, start_line, end_line, file_mode, tasks, i,
                   batch_results, wrote, file, file0, pauses>>
    /\ UNCHANGED harnessVars

\* line 128 returns: the backoff sleep of a fetch is over
BackoffWake(k, l) ==
    /\ alive
    /\ pc = "gather"
    /\ batch[k].st = "running"
    /\ batch[k][l].st = "sleep"
    /\ batch' = [batch EXCEPT ![k][l] = OnWake(@, max_retries)]
    /\ UNCHANGED <<args, service, runs, alive, pc, start_line, end_line, file_mode, tasks, i,
                   batch_results, wrote, file, file0, pauses>>
    /\ UNCHANGED harnessVars

\* lines 144-156: both fetches of item k have returned, the item returns its dict
TaskDone(k) ==
    /\ alive
    /\ pc = "gather"
    /\ batch[k].st = "running"
    /\ batch[k].en.st = "done"
    /\ batch[k].ja.st = "done"
    /\ batch' = [batch EXCEPT ![k] = FinishTask(@)]
    /\ UNCHANGED <<args, service, runs, alive, pc, start_line, end_line, file_mode, tasks, i,
                   batch_results, wrote, file, file0, pauses>>
    /\ UNCHANGED harnessVars

\* (mutant) the wait ends with the first item task that returns
AnySettled(b) == \E k \in 1..Len(b) : b[k].st = "done"

\* await asyncio.gather(*batch) resumes once every item task has returned
AllSettled(b) == \A k \in 1..Len(b) : b[k].st = "done"

\* lines 183-186: gather returns the results in the order of its arguments,
\* and the list is sorted by line number
GatherReturn ==
    /\ alive
    /\ pc = "gather"
    /\ AllSettled(batch)
    /\ batch_results' = SortByNumber([k \in 1..Len(batch) |-> batch[k].result])
    /\ batch' = <<>>
    /\ wrote' = 0
    /\ pc' = "write"
    /\ UNCHANGED <<args, service, runs, alive, start_line, end_line, file_mode, tasks, i,
                   file, file0, pauses>>
    /\ UNCHANGED harnessVars

\* line 189: the next row of the sorted batch is written
WriteRow ==
    /\ alive
    /\ pc = "write"
    /\ wrote < Len(batch_results)
    /\ file' \in RowWritten(file, batch_results[wrote + 1])
    /\ wrote' = wrote + 1
    /\ UNCHANGED <<args, service, runs, alive, pc, start_line, end_line, file_mode, tasks, i,
                   batch, batch_results, file0, pauses>>
    /\ UNCHANGED harnessVars

\* lines 191-196: flush, then sleep if another batch follows
FlushBatch ==
    /\ alive
    /\ pc = "write"
    /\ wrote = Len(batch_results)
    /\ file' = Flushed(file)
    /\ batch_results' = <<>>
    /\ wrote' = 0
    /\ IF MoreBatches(i, args.batch_size, Len(tasks))
       THEN /\ pc' = "sleep"
            /\ pauses' = pauses + 1
            /\ i' = i
       ELSE /\ pc' = "loop"
            /\ pauses' = pauses
            /\ i' = i + args.batch_size
    /\ UNCHANGED <<args, service, runs, alive, start_line, end_line, file_mode, tasks,
                   batch, file0>>
    /\ UNCHANGED harnessVars

\* line 196 returns: the inter-batch sleep is over, the loop goes on
SleepWake ==
    /\ alive
    /\ pc = "sleep"
    /\ i' = i + args.batch_size
    /\ pc' = "loop"
    /\ UNCHANGED <<args, service, runs, alive, start_line, end_line, file_mode, tasks,
                   batch, batch_results, wrote, file, file0, pauses>>
    /\ UNCHANGED harnessVars

\* the loop is exhausted: the with block closes the file and main_async returns
CloseFile ==
    /\ alive
    /\ pc = "loop"
    /\ args.batch_size # 0
    /\ ~InLoopRange(i, Len(tasks), args.batch_size)
    /\ file' = Flushed(file)
    /\ pc' = "done"
    /\ UNCHANGED <<args, service, runs, alive, start_line, end_line, file_mode, tasks, i,
                   batch, batch_results, wrote, file0, pauses>>
    /\ UNCHANGED harnessVars

Running == pc \in {"main", "tasks", "open", "header", "loop", "gather", "write", "sleep"}

\* The process is killed: its memory, and with it what was written but not
\* flushed, is lost; pc, i, wrote and the run range are kept as the record of
\* where it died.
Crash ==
    /\ alive
    /\ Running
    /\ alive' = FALSE
    /\ file' = [file EXCEPT !.buf = <<>>]
    /\ tasks' = <<>>
    /\ batch' = <<>>
    /\ batch_results' = <<>>
    /\ UNCHANGED <<args, service, runs, pc, start_line, end_line, file_mode, i, wrote,
                   file0, pauses>>
    /\ UNCHANGED harnessVars

\* An exception raised into the coroutine inside the with block (lines
\* 171-196), such as KeyboardInterrupt: the exit of the block closes the file,
\* so what the write loop handed to the writer reaches it; the run is over.
Interrupt ==
    /\ alive
    /\ pc \in {"header", "loop", "gather", "write", "sleep"}
    /\ alive' = FALSE
    /\ file' = Flushed(file)
    /\ tasks' = <<>>
    /\ batch' = <<>>
    /\ batch_results' = <<>>
    /\ UNCHANGED <<args, service, runs, pc, start_line, end_line, file_mode, i, wrote,
                   file0, pauses>>
    /\ UNCHANGED harnessVars

Fetching == \E k \in 1..Len(batch) : \E l \in Langs : Respond(k, l) \/ BackoffWake(k, l)
Finishing == \E k \in 1..Len(batch) : TaskDone(k)

Next ==
    \/ MainAsync
    \/ BuildTasks
    \/ OpenFile
    \/ OpenFail
    \/ WriteHeader
    \/ StartBatch
    \/ Fetching
    \/ Finishing
    \/ GatherReturn
    \/ WriteRow
    \/ FlushBatch
    \/ SleepWake
    \/ CloseFile
    \/ RangeFail
    \/ Crash
    \/ Interrupt

Spec == Init /\ [][Next]_vars


\* ------------------------------------------------------ a run, then a rerun
\* The program is started again on the output file the first run left behind.
Reinvoke ==
    /\ runs = 1
    /\ pc \in {"done", "failed", "raised"} \/ ~alive
    /\ args' \in ArgSets
    /\ runs' = runs + 1
    /\ alive' = TRUE
    /\ pc' = "main"
    /\ file0' = file
    /\ start_line' = 0
    /\ end_line' = 0
    /\ file_mode' = "-"
    /\ tasks' = <<>>
    /\ i' = 0
    /\ batch' = <<>>
    /\ batch_results' = <<>>
    /\ wrote' = 0
    /\ pauses' = 0
    /\ UNCHANGED <<service, file>>
    /\ UNCHANGED harnessVars

\* A first run over the whole list on no output file, against a service that
\* answers the same request the same way every time.
ResumeInit ==
    /\ args \in {a \in ArgSets : ~a.has_line /\ a.start = 1}
    /\ service = "det"
    /\ runs = 1
    /\ alive = TRUE
    /\ pc = "main"
    /\ file = NoFile
    /\ file0 = file
    /\ LocalsInit
    /\ CleanIdle
    /\ CallIdle

ResumeNext ==
    \/ MainAsync
    \/ BuildTasks
    \/ OpenFile
    \/ WriteHeader
    \/ StartBatch
    \/ Fetching
    \/ Finishing
    \/ GatherReturn
    \/ WriteRow
    \/ FlushBatch
    \/ SleepWake
    \/ CloseFile
    \/ RangeFail
    \/ Crash
    \/ Interrupt
    \/ Reinvoke

ResumeSpec == ResumeInit /\ [][ResumeNext]_vars

\* --------------------------------------------- the pipeline without interruption
\* The run with the process left alone and the output file openable.
LiveNext ==
    \/ MainAsync
    \/ BuildTasks
    \/ OpenFile
    \/ WriteHeader
    \/ StartBatch
    \/ Fetching
    \/ Finishing
    \/ GatherReturn
    \/ WriteRow
    \/ FlushBatch
    \/ SleepWake
    \/ CloseFile
    \/ RangeFail

\* A run started on no output file, with --start and --line at 1 or above.
FairInit ==
    /\ args \in {a \in ArgSets : a.start >= 1 /\ (a.has_line => a.line >= 1)}
    /\ service = "any"
    /\ runs = 1
    /\ alive = TRUE
    /\ pc = "main"
    /\ file = NoFile
    /\ file0 = file
    /\ LocalsInit
    /\ CleanIdle
    /\ CallIdle

\* Every awaited request returns, every sleep ends, and the event loop runs
\* every step that is ready.
FairSpec == FairInit /\ [][LiveNext]_vars /\ WF_vars(LiveNext)

\* ------------------------------------------------- one get_common_name call
PipelineIdle ==
    /\ args = [start |-> 1, has_line |-> FALSE, line |-> 0, batch_size |-> 1]
    /\ service = "any"
    /\ runs = 0
    /\ alive = FALSE
    /\ pc = "off"
    /\ file = NoFile
    /\ file0 = NoFile
    /\ LocalsInit

Requests(f) == IF f.st = "req" THEN 1 ELSE 0

CallInit ==
    /\ call \in [species : {species_list[k] : k \in 1..NumSpecies},
                 language : Langs,
                 max_retries : 0..MaxRetries]
    /\ frame = NewFetch(call.max_retries)
    /\ nreq = Requests(frame)
    /\ resp = <<>>
    /\ sleeps = <<>>
    /\ PipelineIdle
    /\ CleanIdle

\* line 99 returns or raises
CallRespond ==
    /\ frame.st = "req"
    /\ \E o \in Outcomes(call.language) :
          /\ frame' = OnResponse(frame, o, call.language)
          /\ resp' = Append(resp, o)
    /\ sleeps' = IF frame'.st = "sleep" THEN Append(sleeps, frame'.wait_time) ELSE sleeps
    /\ UNCHANGED <<call, nreq>>
    /\ UNCHANGED pipeVars
    /\ UNCHANGED cleanVars

\* line 128 returns
CallWake ==
    /\ frame.st = "sleep"
    /\ frame' = OnWake(frame, call.max_retries)
    /\ nreq' = nreq + Requests(frame')
    /\ UNCHANGED <<call, resp, sleeps>>
    /\ UNCHANGED pipeVars
    /\ UNCHANGED cleanVars

CallNext == CallRespond \/ CallWake

CallSpec == CallInit /\ [][CallNext]_vars

\* ------------------------------------------------- clean_common_name, twice
RawPieces ==
    { <<" ">>, <<"\n">>, <<"\"">>, <<"L">>,
      PrefixName, <<"n", "A", "M", "E", ":">>, PrefixCommonName,
      <<"U+547C", "U+79F0", "U+FF1A">>, <<"U+65E5", "U+672C", "U+8A9E", "U+540D", ":">>,
      <<"U+300C">> }

RawInputs == {Concat(ps) : ps \in UNION {[1..n -> RawPieces] : n \in 0..MaxPieces}}

CleanInit ==
    /\ raw \in RawInputs
    /\ lang \in Langs
    /\ once = <<>>
    /\ twice = <<>>
    /\ stage = "raw"
    /\ PipelineIdle
    /\ CallIdle

CleanOnce ==
    /\ stage = "raw"
    /\ once' = clean_common_name(raw, lang)
    /\ stage' = "once"
    /\ UNCHANGED <<raw, lang, twice>>
    /\ UNCHANGED pipeVars
    /\ UNCHANGED callVars

CleanTwice ==
    /\ stage = "once"
    /\ twice' = clean_common_name(once, lang)
    /\ stage' = "twice"
    /\ UNCHANGED <<raw, lang, once>>
    /\ UNCHANGED pipeVars
    /\ UNCHANGED callVars

CleanNext == CleanOnce \/ CleanTwice

CleanSpec == CleanInit /\ [][CleanNext]_vars


\* ------------------------------------------------------------- properties
IsPrefix(p, q) == Len(p) <= Len(q) /\ SubSeq(q, 1, Len(p)) = p

\* a, a+1, ..., b
RangeSeq(a, b) == [k \in 1..(IF b >= a THEN b - a + 1 ELSE 0) |-> a + k - 1]

Min(a, b) == IF a <= b THEN a ELSE b

\* The invocation has opened the output file (and, ended or not, got that far).
Opened == pc \in {"header", "loop", "gather", "write", "sleep", "done", "raised"}

\* What the file held when the invocation opened it, as far as the open kept it.
Base == IF file_mode = "a" THEN file0.disk ELSE <<>>

\* The lines the invocation handed to the writer, and those of them flushed.
WrittenLines ==
    IF Opened
    THEN SubSeq(file.disk \o file.buf, Len(Base) + 1, Len(file.disk) + Len(file.buf))
    ELSE <<>>
FlushedLines ==
    IF Opened THEN SubSeq(file.disk, Len(Base) + 1, Len(file.disk)) ELSE <<>>

IsRow(line) == line.kind = "row"
Numbers(lines) ==
    LET rows == SelectSeq(lines, IsRow) IN [k \in 1..Len(rows) |-> rows[k].number]

\* C1: whatever the range and the batch size, the ordinals of the rows an
\* invocation writes are, at every moment, an initial part of start, start+1,
\* ..., end (so strictly increasing, each at most once), and when the
\* invocation is done they are exactly that range.
C1_OrderedExactRange ==
    LET nums == Numbers(WrittenLines) IN
    /\ IsPrefix(nums, RangeSeq(start_line, end_line))
    /\ \A a, b \in 1..Len(nums) : a < b => nums[a] < nums[b]
    /\ (pc = "done" => nums = RangeSeq(start_line, end_line))

\* C2: while an item task of the batch is in flight nothing of the batch has
\* been handed to the writer and the file object holds no unflushed line; the
\* writer gets rows only when no task is in flight, and then the batch's
\* results are all there: one per item of the slice, in slice order, and the
\* last lines handed to the writer are the first rows of those results.
C2_BatchAtomic ==
    alive =>
      /\ pc = "gather" =>
            /\ batch_results = <<>>
            /\ wrote = 0
            /\ file.buf = <<>>
            /\ Numbers(WrittenLines) = [k \in 1..i |-> tasks[k].number]
      /\ pc = "write" =>
            LET slice == BatchSlice(tasks, i, args.batch_size) IN
            /\ batch = <<>>
            /\ Len(batch_results) = Len(slice)
            /\ \A k \in 1..Len(slice) :
                  /\ batch_results[k].number = slice[k].number
                  /\ batch_results[k].scientific_name = slice[k].species
            /\ wrote <= Len(WrittenLines)
            /\ SubSeq(WrittenLines, Len(WrittenLines) - wrote + 1, Len(WrittenLines))
                  = SubSeq(batch_results, 1, wrote)
            /\ Len(file.buf) <= wrote
            /\ Numbers(WrittenLines) = [k \in 1..(i + wrote) |-> tasks[k].number]
      /\ pc \notin {"gather", "write"} =>
            batch = <<>> /\ batch_results = <<>> /\ file.buf = <<>>

\* One item of a batch of two has returned and waits for the other.
C2_Witness ==
    /\ alive
    /\ pc = "gather"
    /\ Len(batch) = 2
    /\ batch[2].st = "done"
    /\ batch[1].st = "running"
    /\ batch[1].en.st = "sleep"

\* C3: in a run with a batch size of one or more, whenever the process is
\* ended (and at every moment before), the part of what the invocation wrote
\* that is in the file is the header (new file) followed by the rows of whole
\* batches, in ordinal order from the start of the range: every batch whose
\* persisting has finished is there, and at most the batch being processed is
\* missing.
C3_CrashDurable ==
    (Opened /\ args.batch_size >= 1) =>
      LET n == Len(RangeSeq(start_line, end_line))
          bs == args.batch_size
          hdr == IF file_mode = "w" /\ pc # "header" THEN <<HeaderLine>> ELSE <<>>
          m == Len(FlushedLines) - Len(hdr)
      IN  /\ IsPrefix(hdr, FlushedLines)
          /\ Numbers(FlushedLines) = RangeSeq(start_line, start_line + m - 1)
          /\ m \in {Min(j * bs, n) : j \in 0..n}
          /\ m >= Min(i, n)
          /\ m <= Min(i + bs, n)
          /\ (pc = "sleep" \/ pc = "done") => m = Min(i + bs, n)

AllRateLimited == \A k \in 1..Len(resp) : OutcomeClass(resp[k]) = "rate"

\* C4: a get_common_name call all of whose requests failed with a rate-limit
\* error has, once it returned, issued exactly max_retries requests and
\* returned the sentinel; until then it has issued at most max_retries.
C4_BackoffBound ==
    /\ nreq <= call.max_retries
    /\ frame.st \in {"req", "sleep", "done"}
    /\ (frame.st = "done" /\ AllRateLimited) =>
          /\ nreq = call.max_retries
          /\ Len(resp) = call.max_retries
          /\ frame.result = SENTINEL

\* A call with the full attempt budget returned after only rate-limit errors.
C4_Witness ==
    /\ frame.st = "done"
    /\ AllRateLimited
    /\ call.max_retries = MaxRetries
    /\ Len(resp) = MaxRetries
    /\ MaxRetries >= 2

Written == Numbers(WrittenLines)

\* C5: a run whose range lies in the list (its task list was built) and whose
\* requests and sleeps all end reaches "done" with one row for every ordinal
\* of the range, whatever the requests came back with.
C5_RunCompletes ==
    (pc = "open") ~> (pc = "done" /\ Written = RangeSeq(start_line, end_line))


\* The label a deterministic service leads to for the identifier at ordinal n:
\* what get_common_name is to return for DetOutcome.
ExpectedLabel(n, language) ==
    LET r == n % 3 IN
    CASE r = 1 -> IF language = "ja" THEN <<"U+30CD">> ELSE <<"L">>
      [] r = 2 -> IF language = "ja" THEN SENTINEL ELSE <<"L">>
      [] OTHER -> SENTINEL

ExpectedRow(n) ==
    [kind |-> "row",
     number |-> n,
     scientific_name |-> <<"species", n>>,
     english_common_name |-> ExpectedLabel(n, "en"),
     japanese_common_name |-> ExpectedLabel(n, "ja")]

\* The output table of ordinals 1..k: the header and one row each.
TableOf(k) == <<HeaderLine>> \o [n \in 1..k |-> ExpectedRow(n)]

\* C6: with a deterministic service and batch sizes of one or more, a run
\* over the whole list from ordinal 1 leaves the table of 1..n; a first run
\* that persisted exactly 1..k followed by a run with --start k+1 (which
\* appends) leaves the same table; and what a first run leaves behind,
\* wherever it stops, is the table of some 1..k.
C6_ResumeEqualsSingleRun ==
    /\ (runs = 1 /\ Opened /\ pc # "header") =>
          \E k \in 0..NumSpecies : file.disk = TableOf(k)
    /\ (pc = "done" /\ ~args.has_line /\ start_line = 1 /\ file_mode = "w"
          /\ args.batch_size >= 1) =>
          file.disk = TableOf(NumSpecies)
    /\ (runs = 2 /\ pc = "done" /\ ~args.has_line /\ args.batch_size >= 1
          /\ args.start >= 2 /\ file0.disk = TableOf(args.start - 1)) =>
          file.disk = TableOf(NumSpecies)

\* A rerun from ordinal 2 or later has completed on the table of the ordinals
\* before it.
C6_Witness ==
    /\ runs = 2
    /\ pc = "done"
    /\ alive
    /\ ~args.has_line
    /\ file_mode = "a"
    /\ start_line >= 2
    /\ start_line <= NumSpecies
    /\ file0.disk = TableOf(start_line - 1)
    /\ file.disk = TableOf(NumSpecies)

\* C7: cleaning a cleaned label changes nothing.
C7_Idempotent == stage = "twice" => twice = once

\* C8: at most batch_size item tasks are in flight (so at most 2 * batch_size
\* requests), they are the tasks of the current slice, and while they are in
\* flight every row of the batches before is written and flushed.
C8_BoundedParallelism ==
    (alive /\ pc = "gather") =>
      LET slice == BatchSlice(tasks, i, args.batch_size)
          running == {k \in 1..Len(batch) : batch[k].st = "running"}
          requests == {<<k, l>> \in (1..Len(batch)) \X Langs : batch[k][l].st = "req"}
      IN  /\ Len(batch) <= args.batch_size
          /\ Cardinality(running) <= args.batch_size
          /\ Cardinality(requests) <= 2 * args.batch_size
          /\ Len(batch) = Len(slice)
          /\ \A k \in 1..Len(batch) : batch[k].number = slice[k].number
          /\ \A k \in 1..Len(batch) : batch[k].number = tasks[i + k].number
          /\ file.buf = <<>>
          /\ Numbers(FlushedLines) = [k \in 1..i |-> tasks[k].number]

\* The second batch is in flight with all its requests outstanding.
C8_Witness ==
    /\ alive
    /\ pc = "gather"
    /\ i > 0
    /\ args.batch_size = 2
    /\ \A k \in 1..Len(batch) : batch[k].en.st = "req" /\ batch[k].ja.st = "req"

\* The label a parsed response is to be normalized to.
NormalizedLabel(language) == IF language = "ja" THEN <<"U+30CD">> ELSE <<"L">>

\* C9: every response of a call but the last is a rate-limit error; a last
\* response of any other class ends the call at once, with no further request
\* and no backoff sleep after it: the sentinel for an error or a missing
\* structured field, the normalized label for a parsed response.
C9_OnlyRateLimitRetried ==
    /\ \A k \in 1..Len(resp) : k < Len(resp) => OutcomeClass(resp[k]) = "rate"
    /\ (Len(resp) > 0 /\ ~IsRateLimit(resp[Len(resp)].msg)) =>
          LET last == resp[Len(resp)] IN
          /\ frame.st = "done"
          /\ nreq = Len(resp)
          /\ Len(sleeps) = Len(resp) - 1
          /\ (last.kind = "parsed" => frame.result = NormalizedLabel(call.language))
          /\ (last.kind = "noparse" => frame.result = SENTINEL)
          /\ (last.kind = "error" => frame.result = SENTINEL)

\* A call ended by an error that is no rate limit, after one rate-limit error.
C9_Witness ==
    /\ Len(resp) = 2
    /\ resp[1].kind = "error"
    /\ resp[2].kind = "error"
    /\ ~IsRateLimit(resp[2].msg)
    /\ frame.st = "done"

\* main_async appends: --line is given, or --start is above 1 and the output
\* file exists.
AppendCase == args.has_line \/ (args.start > 1 /\ file0.exists)

\* C10: in an appending invocation what the file held before stays, at every
\* moment, an unchanged initial part of the file.
C10_ResumeFrame == AppendCase => IsPrefix(file0.disk, file.disk)

\* A rerun from a later ordinal has completed and added rows to the table the
\* first run left.
C10_Witness ==
    /\ runs = 2
    /\ pc = "done"
    /\ ~args.has_line
    /\ args.start > 1
    /\ Len(file0.disk) >= 2
    /\ Len(file.disk) > Len(file0.disk)

IsHeader(line) == line.kind = "header"

\* C11: an invocation that opened the file in mode 'w' has written nothing
\* before its header step and, from then on, has written exactly one header
\* line, which is flushed and is the first line it wrote: so the header is on
\* disk before any row is written and before any item task of the first batch
\* is started.  An invocation that opened the file in mode 'a' never writes a
\* header line.
C11_HeaderDiscipline ==
    Opened =>
      /\ (file_mode = "w" /\ pc = "header") => (WrittenLines = <<>> /\ batch = <<>>)
      /\ (file_mode = "w" /\ pc # "header") =>
            /\ FlushedLines # <<>>
            /\ FlushedLines[1] = HeaderLine
            /\ Len(SelectSeq(WrittenLines, IsHeader)) = 1
      /\ file_mode = "a" => SelectSeq(WrittenLines, IsHeader) = <<>>

\* A rerun has appended rows to a file that a first run created with its header.
C11_Witness ==
    /\ runs = 2
    /\ pc = "done"
    /\ file_mode = "a"
    /\ file0.disk # <<>>
    /\ file0.disk[1] = HeaderLine
    /\ Len(WrittenLines) >= 2

\* C12: the k-th backoff sleep of a call follows its k-th request, which was
\* answered by a rate-limit error, and lasts 10 * k; the sleeps of one call
\* are strictly increasing.
C12_LinearBackoff ==
    /\ Len(sleeps) <= Len(resp)
    /\ \A k \in 1..Len(sleeps) :
          /\ OutcomeClass(resp[k]) = "rate"
          /\ sleeps[k] = 10 * k
    /\ \A a, b \in 1..Len(sleeps) : a < b => sleeps[a] < sleeps[b]

\* A call has slept twice.
C12_Witness ==
    /\ Len(sleeps) >= 2
    /\ sleeps[1] = 10
    /\ sleeps[2] = 20

\* C13: a call that has returned after at least one request has slept once
\* less often than it has issued requests (every backoff sleep was followed by
\* another request).
C13_SleepsOneLessThanAttempts ==
    (frame.st = "done" /\ nreq >= 1) => Len(sleeps) = nreq - 1

\* Number of batches of a range of n items: ceil(n / bs) for a batch size of
\* one or more, none for a size that forms no batch
NumBatches(n, bs) == IF bs >= 1 THEN (n + bs - 1) \div bs ELSE 0

Max(a, b) == IF a >= b THEN a ELSE b

\* C14: the invocation is in its inter-batch pause only when the batch just
\* processed is flushed, no item task exists and a further batch remains; the
\* pauses taken so far number the batches persisted so far, less one once the
\* last batch is persisted: a completed run of B >= 1 batches has paused
\* exactly B - 1 times.
C14_InterBatchPauses ==
    Opened =>
      LET n == Len(RangeSeq(start_line, end_line))
          bs == args.batch_size
          B == NumBatches(n, bs)
          persisted == NumBatches(i, bs)
      IN  /\ pc = "sleep" =>
                /\ i + bs < n
                /\ pauses = persisted + 1
                /\ batch = <<>>
                /\ file.buf = <<>>
                /\ Len(Numbers(FlushedLines)) = i + bs
          /\ pc \in {"header", "loop", "gather", "write", "raised"} =>
                pauses = Min(persisted, Max(B - 1, 0))
          /\ pc = "done" => pauses = Max(B - 1, 0)

\* A run of three batches has completed after two pauses.
C14_Witness ==
    /\ pc = "done"
    /\ pauses >= 2
    /\ Len(Numbers(WrittenLines)) >= 3

\* The row process_species is to return for an item, against the
\* deterministic service.
ExpectedFor(line_number, species) ==
    ResultRow(line_number, species,
              ExpectedLabel(species[2], "en"), ExpectedLabel(species[2], "ja"))

\* Every label a fetch has returned, every record an item has returned and
\* every row gathered or written is the one of its own identifier and language.
LabelsIsolated ==
    /\ \A k \in 1..Len(batch) :
          /\ batch[k].st = "done" =>
                batch[k].result = ExpectedFor(batch[k].number, batch[k].species)
          /\ batch[k].st = "running" =>
                \A l \in Langs :
                    batch[k][l].st = "done" =>
                        batch[k][l].result = ExpectedLabel(batch[k].species[2], l)
    /\ \A k \in 1..Len(batch_results) :
          batch_results[k] =
              ExpectedFor(batch_results[k].number, batch_results[k].scientific_name)
    /\ \A k \in 1..Len(WrittenLines) :
          IsRow(WrittenLines[k]) =>
              WrittenLines[k] =
                  ExpectedFor(WrittenLines[k].number, WrittenLines[k].scientific_name)

\* An item returns its record only in a step taken when both its fetches have
\* returned, and the record holds the English fetch's label as English label
\* and the Japanese fetch's label as Japanese label.
AssembledFromBoth ==
    \A k \in 1..Len(batch) :
        (Len(batch') = Len(batch) /\ batch[k].st = "running" /\ batch'[k].st = "done") =>
            /\ batch[k].en.st = "done"
            /\ batch[k].ja.st = "done"
            /\ batch'[k].result =
                  ResultRow(batch[k].number, batch[k].species,
                            batch[k].en.result, batch[k].ja.result)

\* C15: an item's record is produced only once both its fetches have returned,
\* whichever returned first, with each label in its own column; and a label
\* that failed changes nothing else: against a service whose answer depends on
\* the request alone, every label, record and row is the one of its own
\* identifier and language, whatever happened to the other fetches.
C15_ItemAssembly == []LabelsIsolated /\ [][AssembledFromBoth]_vars

\* A batch of two has been saved: the second item's Japanese fetch was
\* throttled to the end, its English label is intact and so is the first row.
C15_Witness ==
    /\ runs = 1
    /\ args.batch_size = 2
    /\ pc = "sleep"
    /\ Len(file.disk) = 3
    /\ file.disk[2] = ResultRow(1, species_list[1], <<"L">>, <<"U+30CD">>)
    /\ file.disk[3] = ResultRow(2, species_list[2], <<"L">>, SENTINEL)

\* C16: up to the opening of the output file, and in a run the opening (or the
\* building of the task list) has ended, no item task has been started, so no
\* request has been issued, nothing has been written and the file is as the
\* invocation found it.
C16_OpenFailureFatal ==
    pc \in {"main", "tasks", "open", "failed"} =>
      /\ batch = <<>>
      /\ batch_results = <<>>
      /\ wrote = 0
      /\ i = 0
      /\ pauses = 0
      /\ file = file0

\* A run over the whole list has ended at the opening of the file.
C16_Witness ==
    /\ alive
    /\ pc = "failed"
    /\ ~args.has_line
    /\ args.start = 1
    /\ args.batch_size = 2

\* C17: the batch loop index is a multiple of batch_size; the batch in flight
\* is the next batch_size ordinals after those already written, or what is
\* left of the range if that is less (at least one); the rows gathered are
\* those of the same ordinals; a completed run has written the range exactly
\* and gone through ceil(n / batch_size) batches, which is one for --line.
C17_BatchPartition ==
    (alive /\ Opened) =>
      LET n == Len(RangeSeq(start_line, end_line))
          bs == args.batch_size
          current == RangeSeq(start_line + i, Min(start_line + i + bs - 1, end_line))
      IN  /\ \E j \in 0..n : i = j * bs
          /\ pc = "gather" =>
                /\ i < n
                /\ [k \in 1..Len(batch) |-> batch[k].number] = current
                /\ Len(batch) = (IF i + bs <= n THEN bs ELSE n - i)
                /\ Len(batch) >= 1
                /\ Numbers(WrittenLines) = RangeSeq(start_line, start_line + i - 1)
          /\ pc = "write" =>
                [k \in 1..Len(batch_results) |-> batch_results[k].number] = current
          /\ pc = "done" =>
                /\ \E B \in 0..n : i = B * bs /\ (B - 1) * bs < n /\ n <= B * bs
                /\ Numbers(WrittenLines) = RangeSeq(start_line, end_line)
                /\ args.has_line => i = bs

\* C18: every row an invocation writes carries an ordinal between 1 and the
\* length of the list, and the identifier at that position of the list.
C18_OrdinalIdentifier ==
    \A k \in 1..Len(WrittenLines) :
        IsRow(WrittenLines[k]) =>
            /\ WrittenLines[k].number \in 1..Len(species_list)
            /\ WrittenLines[k].scientific_name = species_list[WrittenLines[k].number]

\* C19: when an invocation has completed on an output path that was absent or
\* began with a header line, the file begins with a header line and all its
\* other lines are rows.
C19_HeaderPresent ==
    (pc = "done" /\ (~file0.exists \/ (file0.disk # <<>> /\ IsHeader(file0.disk[1])))) =>
        /\ file.disk # <<>>
        /\ IsHeader(file.disk[1])
        /\ \A k \in 2..Len(file.disk) : IsRow(file.disk[k])

====
